---- MODULE Spec2Model ----
(***************************************************************************)
(* Multi-tenant JWT issuance and verification (jwt-service): the customer  *)
(* store, CreateCustomerJWT, VerifyToken, the external-authorization       *)
(* handler verifyJWTHandler and the issuing handler generateTokenHandler.  *)
(*                                                                         *)
(* Spec serves one request at a time (req).  SpecConc serves two calls at  *)
(* a time (workers), each split at its reads of the store and the clock.   *)
(*                                                                         *)
(* Time is counted in whole seconds.  A token string is kept structured:   *)
(* a textual prefix, and a body that is empty, junk, or a compact JWS with *)
(* its header algorithm, its claim set and its signature segment.  The     *)
(* HMAC is symbolic: a signature is the term (key, alg, claims), so two    *)
(* signatures agree exactly when key and signed content agree.             *)
(***************************************************************************)
EXTENDS Integers, Sequences, FiniteSets, TLC

VARIABLES customers, clock, req, workers

vars == <<customers, clock, req, workers>>

(* ------------------------------ bounds --------------------------------- *)

\* The clock runs over 0..MaxClock.
MaxClock == 2

\* The most minutes asked of the issuer.
MaxMinutes == 69

\* time.Duration is a signed 64-bit count of nanoseconds.  The model counts
\* seconds and keeps a signed DurationBits-bit count, so that the wrap-around
\* of Duration(minutes) * Minute is reached inside TLC's integers, and beyond
\* the 60 minutes the issuing front ends default to.
DurationBits == 13

\* time.Minute, in seconds.
Minute == 60

\* minutes := 60 of generateTokenHandler, used when the body has no minutes.
HandlerDefaultMinutes == 60

\* The default of jwt-generate's --minutes flag.
FlagDefaultMinutes == 60

CustomerIds == {"", "acme"}

AccountIds == {"a1", "a2"}

SecretKeys == {"k1", "k2"}

\* expiration_minutes of a customer row (the --expiration flag, default 60).
ExpirationValues == {30, 60}

(* --------------------------- JSON claim values ------------------------- *)

JAbsent == [t |-> "absent", s |-> "", n |-> 0]

JStr(s) == [t |-> "string", s |-> s, n |-> 0]

JNum(n) == [t |-> "number", s |-> "", n |-> n]

\* jwt.MapClaims of a token: the claims this service reads or writes.
MapClaims(cid, exp, iat, acc, usr) ==
    [customerId |-> cid, exp |-> exp, iat |-> iat, accountId |-> acc, userId |-> usr]

NoClaims == MapClaims(JAbsent, JAbsent, JAbsent, JAbsent, JAbsent)

(* ------------------------------ Go errors ------------------------------ *)

\* An error value: its Error() text and the sentinel errors errors.Is finds in
\* its %w chain.
NilErr == [nil |-> TRUE, msg |-> "", is |-> {}]

Err(msg, is) == [nil |-> FALSE, msg |-> msg, is |-> is]

\* fmt.Errorf(prefix + ": %v", e): the text of e without its chain.
WrapText(prefix, e) == Err(prefix \o ": " \o e.msg, {})

\* fmt.Errorf(prefix + ": %w", e)
Wrap(prefix, e) == Err(prefix \o ": " \o e.msg, e.is)

(* ------------------------------ the store ------------------------------ *)

\* SELECT secret_key FROM customers WHERE customer_id = $1, scanned into a
\* string: sql.ErrNoRows when no row matches, the driver's error when the
\* store cannot be reached.
GetSecretKeyForCustomer(db, up, customerID) ==
    LET rows == {r \in db : r.customer_id = customerID} IN
    IF ~up THEN [key |-> "", err |-> Err("dial tcp: connection refused", {"net.OpError"})]
    ELSE IF rows = {} THEN [key |-> "", err |-> Err("sql: no rows in result set", {"sql.ErrNoRows"})]
    ELSE [key |-> (CHOOSE r \in rows : TRUE).secret_key, err |-> NilErr]

\* The driver's error for a row that breaks a UNIQUE constraint.
ErrUnique(constraint) ==
    Err("pq: duplicate key value violates unique constraint \"" \o constraint \o "\"",
        {"pq.Error"})

\* An INSERT that replaces the row of a customer_id already there
\* (ON CONFLICT (customer_id) DO UPDATE).
CreateCustomerUpsert(db, row) ==
    IF \E r \in db : r.customer_id # row.customer_id /\ r.account_id = row.account_id
    THEN [db |-> db, err |-> ErrUnique("customers_account_id_key")]
    ELSE [db |-> {r \in db : r.customer_id # row.customer_id} \cup {row}, err |-> NilErr]

\* INSERT INTO customers: customer_id and account_id are UNIQUE.  The store
\* after the statement, and the error returned.
CreateCustomer(db, row) ==
    IF \E r \in db : r.customer_id = row.customer_id
    THEN [db |-> db, err |-> ErrUnique("customers_customer_id_key")]
    ELSE IF \E r \in db : r.account_id = row.account_id
    THEN [db |-> db, err |-> ErrUnique("customers_account_id_key")]
    ELSE [db |-> db \cup {row}, err |-> NilErr]

\* UPDATE customers SET account_id, expiration_minutes WHERE customer_id = $1:
\* no row matching is no error.
UpdateCustomer(db, customerID, accountID, minutes) ==
    IF /\ \E r \in db : r.customer_id = customerID
       /\ \E r \in db : r.customer_id # customerID /\ r.account_id = accountID
    THEN [db |-> db, err |-> ErrUnique("customers_account_id_key")]
    ELSE [db |-> {IF r.customer_id = customerID
                  THEN [r EXCEPT !.account_id = accountID, !.expiration_minutes = minutes]
                  ELSE r : r \in db},
          err |-> NilErr]

\* A DELETE with account_id in its WHERE clause.
DeleteCustomerByAccount(db, customerID) == {r \in db : r.account_id # customerID}

\* DELETE FROM customers WHERE customer_id = $1.
DeleteCustomer(db, customerID) == {r \in db : r.customer_id # customerID}

\* The columns GetCustomerByID and ListCustomers select into a models.Customer:
\* secret_key is not among them, SecretKey stays the empty string.
Selected(r) == [r EXCEPT !.secret_key = ""]

\* Database.GetCustomerByID: the customers found (one or none) and the error.
GetCustomerByID(db, customerID) ==
    LET rows == {r \in db : r.customer_id = customerID} IN
    IF rows = {} THEN [found |-> {}, err |-> Err("sql: no rows in result set", {"sql.ErrNoRows"})]
    ELSE [found |-> {Selected(r) : r \in rows}, err |-> NilErr]

\* Database.ListCustomers
ListCustomers(db) == [found |-> {Selected(r) : r \in db}, err |-> NilErr]

(* ------------------------------- time ---------------------------------- *)

\* time.Now(): an instant with the process's Local location.
TimeNow(now) == [unix |-> now, loc |-> "Local"]

\* t.In(istLocation): the same instant, shown in another location.
toIST(t, istLocation) == [t EXCEPT !.loc = istLocation]

\* time.Duration(expirationMinutes) * time.Minute: signed, wraps around.
DurationOfMinutes(minutes) ==
    LET half == 2 ^ (DurationBits - 1)
        m == (minutes * Minute + half) % (2 * half)
    IN  m - half

\* t.Add(d)
TimeAdd(t, d) == [t EXCEPT !.unix = @ + d]

\* t.Unix()
TimeUnix(t) == t.unix

\* t.Format(time.RFC3339)
FormatRFC3339(t) == "unix:" \o ToString(t.unix) \o "@" \o t.loc

(* ------------------------------ tokens --------------------------------- *)

\* Signing algorithms the jwt library registers, and the HMAC family.
RegisteredAlgs == {"HS256", "HS384", "none", "RS256"}

HMACAlgs == {"HS256", "HS384"}

\* HMAC of the signing input (header and claims) under key.
Sign(key, alg, claims) == [key |-> key, alg |-> alg, claims |-> claims, flip |-> FALSE]

\* A signature segment with a byte changed.
FlipByte(sig) == [sig EXCEPT !.flip = ~@]

\* The empty signature segment.
NoSig == [key |-> "", alg |-> "", claims |-> NoClaims, flip |-> FALSE]

\* A compact JWS as a string.
JWS(alg, claims, sig) ==
    [pre |-> "", form |-> "jws", alg |-> alg, claims |-> claims, sig |-> sig]

\* Strings that are no compact JWS: pre followed by nothing or by junk.
PlainString(pre, form) ==
    [pre |-> pre, form |-> form, alg |-> "", claims |-> NoClaims, sig |-> NoSig]

EmptyString == PlainString("", "empty")

\* token.SignedString(key) of jwt.NewWithClaims(method, claims)
SignedString(alg, claims, key) == JWS(alg, claims, Sign(key, alg, claims))

(* --------------------------- the jwt library --------------------------- *)

ErrTokenMalformed ==
    Err("token is malformed: token contains an invalid number of segments",
        {"jwt.ErrTokenMalformed"})

ErrAlgUnavailable ==
    Err("token is unverifiable: signing method (alg) is unavailable",
        {"jwt.ErrTokenUnverifiable"})

ErrKeyfunc(alg) ==
    Err("token is unverifiable: error while executing keyfunc: unexpected signing method: " \o alg,
        {"jwt.ErrTokenUnverifiable"})

ErrSignatureInvalid ==
    Err("token signature is invalid: signature is invalid",
        {"jwt.ErrTokenSignatureInvalid", "jwt.ErrSignatureInvalid"})

ErrKeyType ==
    Err("token signature is invalid: key is of invalid type",
        {"jwt.ErrTokenSignatureInvalid", "jwt.ErrInvalidKeyType"})

ErrExpClaimType ==
    Err("token has invalid claims: exp is invalid: invalid type for claim",
        {"jwt.ErrTokenInvalidClaims", "jwt.ErrInvalidType"})

ErrTokenExpired ==
    Err("token has invalid claims: token is expired",
        {"jwt.ErrTokenInvalidClaims", "jwt.ErrTokenExpired"})

\* new(jwt.Parser).ParseUnverified(tokenString, jwt.MapClaims{}): splits the
\* string in three segments, decodes header and claims, looks the header's
\* alg up among the registered methods.  No signature is looked at.
ParseUnverified(tokenString) ==
    IF tokenString.pre # "" \/ tokenString.form # "jws"
    THEN [err |-> ErrTokenMalformed, alg |-> "", claims |-> NoClaims]
    ELSE IF tokenString.alg \notin RegisteredAlgs
    THEN [err |-> ErrAlgUnavailable, alg |-> tokenString.alg, claims |-> tokenString.claims]
    ELSE [err |-> NilErr, alg |-> tokenString.alg, claims |-> tokenString.claims]

\* A key function that also hands the library's UnsafeAllowNoneSignatureType
\* to unsigned tokens.
KeyfuncAllowNone(alg, secretKey) ==
    IF alg = "none" THEN [err |-> NilErr, type |-> "unsafeAllowNone", key |-> ""]
    ELSE IF alg \notin HMACAlgs THEN [err |-> ErrKeyfunc(alg), type |-> "", key |-> ""]
    ELSE [err |-> NilErr, type |-> "bytes", key |-> secretKey]

\* The key function given to jwt.Parse: an error unless the token's method
\* is a *jwt.SigningMethodHMAC, and then []byte(secretKey).
Keyfunc(alg, secretKey) ==
    IF alg \notin HMACAlgs THEN [err |-> ErrKeyfunc(alg), type |-> "", key |-> ""]
    ELSE [err |-> NilErr, type |-> "bytes", key |-> secretKey]

\* token.Method.Verify(signingString, signature, key): an HMAC method wants a
\* []byte key and recomputes the MAC; "none" wants the library's explicit
\* allowance and an empty signature; the asymmetric methods want a public key.
MethodVerify(tokenString, key) ==
    IF tokenString.alg \in HMACAlgs
    THEN IF key.type # "bytes" THEN ErrKeyType
         ELSE IF tokenString.sig # Sign(key.key, tokenString.alg, tokenString.claims)
         THEN ErrSignatureInvalid
         ELSE NilErr
    ELSE IF tokenString.alg = "none"
    THEN IF key.type = "unsafeAllowNone" /\ tokenString.sig = NoSig THEN NilErr
         ELSE ErrSignatureInvalid
    ELSE ErrKeyType

\* The library's claim validation: exp is optional, must be a number when
\* present, and the token is expired unless now.Before(exp).
ValidateClaims(claims, now) ==
    IF claims.exp.t = "absent" THEN NilErr
    ELSE IF claims.exp.t # "number" THEN ErrExpClaimType
    ELSE IF ~(now < claims.exp.n) THEN ErrTokenExpired
    ELSE NilErr

\* ParseUnverified in the place of Parse: no key, no signature, no validation.
JwtParseUnverifiedOnly(tokenString, secretKey, now) ==
    LET parsed == ParseUnverified(tokenString)
    IN  [err |-> parsed.err, valid |-> parsed.err.nil, claims |-> parsed.claims]

\* Parse with jwt.WithoutClaimsValidation().
JwtParseWithoutClaimsValidation(tokenString, secretKey, now) ==
    LET parsed == ParseUnverified(tokenString)
        key == Keyfunc(parsed.alg, secretKey)
        sigErr == MethodVerify(tokenString, key)
        err == IF ~parsed.err.nil THEN parsed.err
               ELSE IF ~key.err.nil THEN key.err
               ELSE sigErr
    IN  [err |-> err, valid |-> err.nil, claims |-> parsed.claims]

\* Parse validating the claims before the signature is verified.
JwtParseClaimsFirst(tokenString, secretKey, now) ==
    LET parsed == ParseUnverified(tokenString)
        key == Keyfunc(parsed.alg, secretKey)
        sigErr == MethodVerify(tokenString, key)
        claimErr == ValidateClaims(parsed.claims, now)
        err == IF ~parsed.err.nil THEN parsed.err
               ELSE IF ~claimErr.nil THEN claimErr
               ELSE IF ~key.err.nil THEN key.err
               ELSE sigErr
    IN  [err |-> err, valid |-> err.nil, claims |-> parsed.claims]

\* jwt.Parse(tokenString, keyFunc) as VerifyToken calls it: parse, key
\* function, signature, claim validation, in this order.
JwtParse(tokenString, secretKey, now) ==
    LET parsed == ParseUnverified(tokenString)
        key == Keyfunc(parsed.alg, secretKey)
        sigErr == MethodVerify(tokenString, key)
        claimErr == ValidateClaims(parsed.claims, now)
        err == IF ~parsed.err.nil THEN parsed.err
               ELSE IF ~key.err.nil THEN key.err
               ELSE IF ~sigErr.nil THEN sigErr
               ELSE claimErr
    IN  [err |-> err, valid |-> err.nil, claims |-> parsed.claims]

(* ------------------------------ JWTService ----------------------------- *)

NilPayload == [nil |-> TRUE, CustomerID |-> "", AccountID |-> "", UserID |-> "", Exp |-> 0]

\* A failing return that hands a payload back with the error.
VerifyFailWithPayload(err, trace) ==
    [payload |-> [NilPayload EXCEPT !.nil = FALSE], err |-> err, trace |-> trace]

\* What a failing VerifyToken call returns (nil, err), with the stages it ran.
VerifyFail(err, trace) == [payload |-> NilPayload, err |-> err, trace |-> trace]

\* claims[name].(string), the empty string when the assertion fails
StringClaim(v) == IF v.t = "string" THEN v.s ELSE ""

\* The payload built from the verified claims (and the customerID read first).
MakePayload(customerID, claims) ==
    [nil |-> FALSE, CustomerID |-> customerID, AccountID |-> StringClaim(claims.accountId),
     UserID |-> StringClaim(claims.userId), Exp |-> claims.exp.n]

\* The expiration check VerifyToken makes itself, after jwt.Parse.
ExpiredAt(exp, now) == exp < now

\* JWTService.VerifyToken.  now1 is the clock jwt.Parse reads, now2 the clock
\* the expiration check reads.
VerifyToken(tokenString, db, up, now1, now2) ==
    LET unverified == ParseUnverified(tokenString)
        cid == unverified.claims.customerId
        customerID == cid.s
        look == GetSecretKeyForCustomer(db, up, customerID)
        token == JwtParse(tokenString, look.key, now1)
        claims == token.claims
    IN  IF ~unverified.err.nil
        THEN VerifyFail(Wrap("failed to parse token", unverified.err), <<"parse">>)
        ELSE IF cid.t # "string"
        THEN VerifyFail(Err("customerId not found in token", {}), <<"parse">>)
        ELSE IF ~look.err.nil
        THEN VerifyFail(Wrap("failed to get secret key for customer " \o customerID, look.err),
                        <<"parse", "key">>)
        ELSE IF ~token.err.nil \/ ~token.valid
        THEN VerifyFail(Wrap("token verification failed", token.err),
                        <<"parse", "key", "verify">>)
        ELSE IF claims.exp.t # "number"
        THEN VerifyFail(Err("expiration not found in token", {}),
                        <<"parse", "key", "verify", "expiry">>)
        ELSE IF ExpiredAt(claims.exp.n, now2)
        THEN VerifyFail(Err("token expired", {}),
                        <<"parse", "key", "verify", "expiry">>)
        ELSE [payload |-> MakePayload(customerID, claims), err |-> NilErr,
              trace |-> <<"parse", "key", "verify", "expiry">>]

\* The instant CreateCustomerJWT puts in exp.
ExpirationTime(now, istLocation, expirationMinutes) ==
    TimeAdd(toIST(TimeNow(now), istLocation), DurationOfMinutes(expirationMinutes))

\* The claims CreateCustomerJWT signs: now1 is the clock read for exp, now2
\* the clock read for iat.
IssuedClaims(customerID, expirationMinutes, now1, now2, istLocation) ==
    MapClaims(JStr(customerID),
              JNum(TimeUnix(ExpirationTime(now1, istLocation, expirationMinutes))),
              JNum(TimeUnix(toIST(TimeNow(now2), istLocation))),
              JAbsent, JAbsent)

\* JWTService.CreateCustomerJWT
CreateCustomerJWT(customerID, expirationMinutes, db, up, now1, now2, istLocation) ==
    LET look == GetSecretKeyForCustomer(db, up, customerID)
        claims == IssuedClaims(customerID, expirationMinutes, now1, now2, istLocation)
    IN  IF ~look.err.nil
        THEN [token |-> EmptyString,
              err |-> Wrap("failed to get secret key for customer " \o customerID, look.err)]
        ELSE [token |-> SignedString("HS256", claims, look.key), err |-> NilErr]

(* ------------------------- the gateway (gin) --------------------------- *)

\* len(authHeader): a token body never has fewer characters than the test's
\* "invalid.token.string".
StringLen(str) == Len(str.pre) + (IF str.form = "empty" THEN 0 ELSE Len("invalid.token.string"))

\* authHeader[:7] == "Bearer ", for a header at least 7 characters long
HasBearerPrefix(str) == Len(str.pre) >= 7 /\ SubSeq(str.pre, 1, 7) = "Bearer "

\* The token verifyJWTHandler takes out of a non-empty Authorization header.
ExtractToken(authHeader) ==
    IF StringLen(authHeader) > 7 /\ HasBearerPrefix(authHeader)
    THEN [authHeader EXCEPT !.pre = SubSeq(authHeader.pre, 8, Len(authHeader.pre))]
    ELSE authHeader

\* The keys of the gin.H bodies the handlers write.
NoBody == [error |-> "", status |-> "", customer_id |-> "", account_id |-> "",
           user_id |-> "", expires_at |-> "", token |-> EmptyString,
           expires_in_minutes |-> 0]

\* The response writer of one request: the header map being built, and what
\* has been written to the caller (status, the headers as they were then, body).
NoResponse == [headers |-> {}, written |-> FALSE, status |-> 0, sent |-> {}, body |-> NoBody]

\* c.Header(key, value): sets the header, and removes it when value is "".
GinHeader(resp, key, value) ==
    LET others == {h \in resp.headers : h[1] # key} IN
    [resp EXCEPT !.headers = IF value = "" THEN others ELSE others \cup {<<key, value>>}]

\* c.JSON(code, obj): writes the status line, the header map and the body.
GinJSON(resp, code, obj) ==
    IF resp.written THEN resp
    ELSE [resp EXCEPT !.written = TRUE, !.status = code, !.body = obj,
                      !.sent = resp.headers
                               \cup {<<"Content-Type", "application/json; charset=utf-8">>}]

\* The identity headers verifyJWTHandler sets on the allow path.
SetIdentityHeaders(resp, payload) ==
    LET r1 == GinHeader(resp, "X-Customer-ID", payload.CustomerID)
        r2 == IF payload.AccountID # "" THEN GinHeader(r1, "X-Account-ID", payload.AccountID) ELSE r1
        r3 == IF payload.UserID # "" THEN GinHeader(r2, "X-User-ID", payload.UserID) ELSE r2
        r4 == GinHeader(r3, "X-Token-Verified", "true")
    IN  GinHeader(r4, "X-Token-Expiration", FormatRFC3339(TimeNow(payload.Exp)))

\* The body of the allow response.
AllowBody(payload) ==
    [NoBody EXCEPT !.status = "authorized", !.customer_id = payload.CustomerID,
                   !.account_id = payload.AccountID, !.user_id = payload.UserID,
                   !.expires_at = FormatRFC3339(TimeNow(payload.Exp))]

\* The body of a deny response.
DenyBody(reason) == [NoBody EXCEPT !.error = reason]

\* The check for a missing header left out.
HeaderMissingNever(authHeader) == FALSE

\* if authHeader == "" : the header is missing or empty.
HeaderMissing(authHeader) == authHeader = EmptyString

\* The error check letting the handler's own expiry error through.
VerifyFailedUnlessExpired(out) == ~out.err.nil /\ out.err.msg # "token expired"

\* if err != nil after VerifyToken: the request is denied.
VerifyFailed(out) == ~out.err.nil

\* c.JSON placed before the c.Header calls.
NextStepJSONFirst(pc) ==
    CASE pc = "verified" -> "json"
      [] pc = "json" -> "headers"
      [] OTHER -> "done"

\* The order of the allow path's statements after VerifyToken has succeeded.
NextStep(pc) ==
    CASE pc = "verified" -> "headers"
      [] pc = "headers" -> "json"
      [] OTHER -> "done"

\* A *int of a request body, or a flag that may be left out.
NilInt == [nil |-> TRUE, v |-> 0]

IntPtr(n) == [nil |-> FALSE, v |-> n]

\* The minutes generateTokenHandler issues for.
HandlerMinutes(ptr) == IF ptr.nil THEN HandlerDefaultMinutes ELSE ptr.v

\* The value of jwt-generate's minutes variable after flag parsing.
FlagMinutes(ptr) == IF ptr.nil THEN FlagDefaultMinutes ELSE ptr.v

\* c.ShouldBindJSON(&req) with binding:"required" on customer_id: an error
\* when the key is missing or its value is the empty string.
ShouldBindJSON(customerID) ==
    IF customerID = ""
    THEN Err("Key: 'CustomerID' Error:Field validation for 'CustomerID' failed on the 'required' tag",
             {"validator.ValidationErrors"})
    ELSE NilErr

\* Server.generateTokenHandler: what CreateCustomerJWT returned (nothing when
\* it was not called) and the response written.
GenerateTokenHandler(customerID, ptr, db, up, now1, now2, istLocation) ==
    LET bindErr == ShouldBindJSON(customerID)
        minutes == HandlerMinutes(ptr)
        out == CreateCustomerJWT(customerID, minutes, db, up, now1, now2, istLocation)
    IN  IF ~bindErr.nil
        THEN [issued |-> [token |-> EmptyString, err |-> bindErr],
              resp |-> GinJSON(NoResponse, 400,
                               DenyBody("Invalid request body: " \o bindErr.msg))]
        ELSE IF ~out.err.nil
        THEN [issued |-> out,
              resp |-> GinJSON(NoResponse, 500,
                               DenyBody("Failed to generate token: " \o out.err.msg))]
        ELSE [issued |-> out,
              resp |-> GinJSON(NoResponse, 200,
                               [NoBody EXCEPT !.token = out.token,
                                              !.expires_in_minutes = minutes])]

(* --------------------------- requests and inputs ----------------------- *)

NoOutcome == VerifyFail(NilErr, <<>>)

NoIssue == [token |-> EmptyString, err |-> NilErr]

\* No row given to a store operation.
NoRow == [customer_id |-> "", account_id |-> "", secret_key |-> "", expiration_minutes |-> 0]

\* The request being served (one at a time; the store and the clock move
\* between requests, and between the two clock reads of a call): its inputs,
\* what the store, VerifyToken or CreateCustomerJWT returned, the handler's
\* position and its response.  rt marks a verification of the token the
\* preceding issuance returned.
Idle == [op |-> "idle", pc |-> "done", hdr |-> EmptyString, tok |-> EmptyString,
         cid |-> "", row |-> NoRow, dberr |-> NilErr, found |-> {}, ptr |-> NilInt,
         minutes |-> 0, loc |-> "UTC", at |-> 0, now1 |-> 0,
         up |-> TRUE,
         rt |-> FALSE, out |-> NoOutcome, issued |-> NoIssue, resp |-> NoResponse]

\* The locations init() can leave in istLocation.
Locations == {"Asia/Kolkata", "UTC"}

\* The header algorithms presented: HMAC, unsigned, asymmetric, and one the
\* library does not know.
Algs == {"HS256", "none", "RS256", "HS999"}

CustomerIdClaims == {JStr(c) : c \in CustomerIds} \cup {JAbsent, JNum(7)}

ExpClaims(now) == {JNum(now - 1), JNum(now), JNum(now + 1), JAbsent, JStr("never")}

IdentityClaims == {<<JAbsent, JAbsent>>, <<JStr(""), JAbsent>>, <<JStr("a1"), JStr("u1")>>}

ClaimSets(now) ==
    {MapClaims(c, e, JAbsent, i[1], i[2]) :
        c \in CustomerIdClaims, e \in ExpClaims(now), i \in IdentityClaims}

\* The signature segments a token may arrive with: signed with any tenant
\* key, or a valid signature with a byte changed.
Signatures(alg, claims) ==
    {Sign(k, alg, claims) : k \in SecretKeys} \cup {FlipByte(Sign("k1", alg, claims))}
    \cup (IF alg = "none" THEN {NoSig} ELSE {})

\* The compact tokens a caller may present at time now.
Tokens(now) ==
    UNION {{JWS(p[1], p[2], s) : s \in Signatures(p[1], p[2])} : p \in Algs \X ClaimSets(now)}

\* The strings a caller may present as a token.
TokenStrings(now) == Tokens(now) \cup {EmptyString, PlainString("", "junk")}

\* The Authorization headers a caller may send: no header, a token after
\* "Bearer ", a raw token, and other prefixes.
AuthHeaders(now) ==
    {[t EXCEPT !.pre = "Bearer "] : t \in TokenStrings(now)}
    \cup {t \in TokenStrings(now) : t.alg \in {"", "HS256"}}
    \cup {PlainString("bearer ", "junk"), PlainString("Bearer", "junk")}

\* The minutes asked of the issuer: around zero, and up to MaxMinutes.
Minutes == (-1 .. 2) \cup (MaxMinutes - 1 .. MaxMinutes)

\* The minutes a caller may give, or leave out.
MinutesArgs == {NilInt} \cup {IntPtr(m) : m \in Minutes}

Rows == [customer_id : CustomerIds, account_id : AccountIds,
         secret_key : SecretKeys, expiration_minutes : ExpirationValues]

(* ------------------------- concurrent requests ------------------------- *)

\* The goroutines serving requests at the same time.
WorkerIds == {1, 2}

\* Nothing looked up yet.
NoLook == [key |-> "", err |-> NilErr]

\* The local variables of one call of VerifyToken or CreateCustomerJWT: its
\* arguments, its position, what its store lookup and its clock reads returned,
\* and its result.
Resting == [pc |-> "rest", op |-> "", tok |-> EmptyString, customerID |-> "",
            minutes |-> 0, loc |-> "UTC", look |-> NoLook, up |-> TRUE,
            now1 |-> 0, now2 |-> 0, out |-> NoOutcome, issued |-> NoIssue]

\* The tokens presented to concurrent verifications.
ConcTokens ==
    {SignedString("HS256", MapClaims(JStr("acme"), JNum(e), JAbsent, JAbsent, JAbsent), k) :
        e \in {1, MaxClock + 1}, k \in SecretKeys}
    \cup {PlainString("", "junk")}

\* The minutes asked of concurrent issuances.
ConcMinutes == {-1, 1}

\* The rows written while requests are being served.
ConcRows == {r \in Rows : r.expiration_minutes = 60 /\ r.account_id = "a1"}

\* A key read again from the store when the signature is verified.
ParseKeyShared(l) == GetSecretKeyForCustomer(customers, TRUE, l.customerID).key

\* The secretKey the key function of VerifyToken captured.
ParseKey(l) == l.look.key

(* -------------------------------- actions ------------------------------ *)

Init ==
    /\ customers = {}
    /\ clock = 0
    /\ req = Idle
    /\ workers = [w \in WorkerIds |-> Resting]

\* customer-create: GenerateSecretKey, then Database.CreateCustomer.
CustomerCreate ==
    /\ req.op = "idle"
    /\ UNCHANGED workers
    /\ \E row \in Rows :
        LET done == CreateCustomer(customers, row) IN
        /\ customers' = done.db
        /\ req' = [Idle EXCEPT !.op = "create", !.cid = row.customer_id, !.row = row,
                               !.dberr = done.err]
        /\ UNCHANGED clock

\* Database.UpdateCustomer
CustomerUpdate ==
    /\ req.op = "idle"
    /\ UNCHANGED workers
    /\ \E c \in CustomerIds, a \in AccountIds, m \in ExpirationValues :
        LET done == UpdateCustomer(customers, c, a, m) IN
        /\ customers' = done.db
        /\ req' = [Idle EXCEPT !.op = "update", !.cid = c, !.dberr = done.err,
                               !.row = [NoRow EXCEPT !.customer_id = c, !.account_id = a,
                                                     !.expiration_minutes = m]]
        /\ UNCHANGED clock

\* Database.DeleteCustomer
CustomerDelete ==
    /\ req.op = "idle"
    /\ UNCHANGED workers
    /\ \E c \in CustomerIds :
        LET gone == {r \in customers : r.customer_id = c} IN
        /\ customers' = DeleteCustomer(customers, c)
        /\ req' = [Idle EXCEPT !.op = "delete", !.cid = c,
                               !.row = IF gone = {} THEN NoRow ELSE CHOOSE r \in gone : TRUE]
        /\ UNCHANGED clock

\* Database.GetCustomerByID
CustomerGet ==
    /\ req.op = "idle"
    /\ UNCHANGED workers
    /\ \E c \in CustomerIds :
        LET got == GetCustomerByID(customers, c) IN
        /\ req' = [Idle EXCEPT !.op = "get", !.cid = c, !.found = got.found,
                               !.dberr = got.err]
        /\ UNCHANGED <<customers, clock>>

\* customer-list: Database.ListCustomers
CustomerList ==
    /\ req.op = "idle"
    /\ UNCHANGED workers
    /\ req' = [Idle EXCEPT !.op = "list", !.found = ListCustomers(customers).found]
    /\ UNCHANGED <<customers, clock>>

\* A second passes.
Tick ==
    /\ req.op = "idle"
    /\ UNCHANGED workers
    /\ clock < MaxClock
    /\ clock' = clock + 1
    /\ UNCHANGED <<customers, req>>

\* The second clock read of a VerifyToken or CreateCustomerJWT call may come
\* up to two seconds after the first.
LaterReads == {n \in clock .. clock + 2 : n <= MaxClock}

\* jwt-generate: CreateCustomerJWT in a process whose init() left loc.
JwtGenerate ==
    /\ req.op = "idle"
    /\ UNCHANGED workers
    /\ \E c \in CustomerIds, ptr \in MinutesArgs, up \in BOOLEAN, loc \in Locations,
          now2 \in LaterReads :
        LET m == FlagMinutes(ptr)
            out == CreateCustomerJWT(c, m, customers, up, clock, now2, loc)
        IN  /\ req' = [Idle EXCEPT !.op = "issue", !.cid = c, !.ptr = ptr, !.minutes = m,
                                   !.loc = loc, !.at = clock, !.up = up, !.issued = out]
            /\ clock' = IF out.err.nil THEN now2 ELSE clock
            /\ UNCHANGED customers

\* POST /token: generateTokenHandler in a process whose init() left loc.
TokenRequest ==
    /\ req.op = "idle"
    /\ UNCHANGED workers
    /\ \E c \in CustomerIds, ptr \in MinutesArgs, up \in BOOLEAN, loc \in Locations,
          now2 \in LaterReads :
        LET h == GenerateTokenHandler(c, ptr, customers, up, clock, now2, loc) IN
        /\ req' = [Idle EXCEPT !.op = "token", !.cid = c, !.ptr = ptr,
                               !.minutes = HandlerMinutes(ptr), !.loc = loc, !.at = clock,
                               !.up = up, !.issued = h.issued, !.resp = h.resp]
        /\ clock' = IF h.issued.err.nil THEN now2 ELSE clock
        /\ UNCHANGED customers

\* jwt-verify: VerifyToken on a presented string.
JwtVerify ==
    /\ req.op = "idle"
    /\ UNCHANGED workers
    /\ \E t \in TokenStrings(clock), up \in BOOLEAN, now2 \in LaterReads :
        /\ req' = [Idle EXCEPT !.op = "verify", !.tok = t, !.now1 = clock, !.up = up,
                               !.out = VerifyToken(t, customers, up, clock, now2)]
        /\ clock' = now2
        /\ UNCHANGED customers

\* VerifyToken on the token CreateCustomerJWT has just returned.
JwtVerifyIssued ==
    /\ req.op = "issue"
    /\ UNCHANGED workers
    /\ req.issued.err.nil
    /\ \E now2 \in LaterReads :
        /\ req' = [req EXCEPT !.op = "verify", !.rt = TRUE, !.tok = req.issued.token,
                              !.now1 = clock, !.up = TRUE,
                              !.out = VerifyToken(req.issued.token, customers, TRUE, clock, now2)]
        /\ clock' = now2
    /\ UNCHANGED customers

\* The tokens of a tenant with the key of row, not yet expired at now.
HeldTokens(row, now) ==
    {SignedString("HS256",
                  MapClaims(JStr(row.customer_id), JNum(e), JAbsent, JAbsent, JAbsent),
                  row.secret_key) : e \in now + 1 .. now + 2}

\* VerifyToken on a token of the tenant DeleteCustomer has just removed.
JwtVerifyDeleted ==
    /\ req.op = "delete"
    /\ UNCHANGED workers
    /\ req.row # NoRow
    /\ \E t \in HeldTokens(req.row, clock), now2 \in LaterReads :
        /\ req' = [req EXCEPT !.op = "verify", !.tok = t, !.now1 = clock, !.up = TRUE,
                              !.out = VerifyToken(t, customers, TRUE, clock, now2)]
        /\ clock' = now2
    /\ UNCHANGED customers

\* verifyJWTHandler up to the outcome of VerifyToken: the deny responses are
\* written here, the allow path goes on in GwStep.
GwRequest ==
    /\ req.op = "idle"
    /\ UNCHANGED workers
    /\ \E h \in AuthHeaders(clock), up \in BOOLEAN, now2 \in LaterReads :
        LET token == ExtractToken(h)
            out == VerifyToken(token, customers, up, clock, now2)
            r == [Idle EXCEPT !.op = "gateway", !.hdr = h, !.now1 = clock, !.up = up]
        IN  /\ req' =
                IF HeaderMissing(h)
                THEN [r EXCEPT !.resp = GinJSON(NoResponse, 401,
                                                DenyBody("Authorization header required"))]
                ELSE IF VerifyFailed(out)
                THEN [r EXCEPT !.tok = token, !.out = out,
                               !.resp = GinJSON(NoResponse, 401, DenyBody(out.err.msg))]
                ELSE [r EXCEPT !.tok = token, !.out = out, !.pc = NextStep("verified")]
            /\ clock' = IF HeaderMissing(h) THEN clock ELSE now2
            /\ UNCHANGED customers

\* One statement group of the allow path: the c.Header calls, or c.JSON.
GwStep ==
    /\ req.op = "gateway"
    /\ UNCHANGED workers
    /\ req.pc \in {"headers", "json"}
    /\ req' = [req EXCEPT
                 !.pc = NextStep(req.pc),
                 !.resp = IF req.pc = "headers"
                          THEN SetIdentityHeaders(req.resp, req.out.payload)
                          ELSE GinJSON(req.resp, 200, AllowBody(req.out.payload))]
    /\ UNCHANGED <<customers, clock>>

\* The request has been answered; the next one is taken.
Return ==
    /\ req.op # "idle"
    /\ UNCHANGED workers
    /\ req.pc = "done"
    /\ req' = Idle
    /\ UNCHANGED <<customers, clock>>

\* A customer-create of another process commits.
AdminCreate ==
    /\ \E row \in ConcRows : customers' = CreateCustomer(customers, row).db
    /\ UNCHANGED <<clock, req, workers>>

\* A DeleteCustomer of another process commits.
AdminDelete ==
    /\ \E c \in CustomerIds : customers' = DeleteCustomer(customers, c)
    /\ UNCHANGED <<clock, req, workers>>

\* VerifyToken up to its store lookup: ParseUnverified and the customerId claim.
VerifyBegin(w) ==
    /\ workers[w].pc = "rest"
    /\ \E t \in ConcTokens :
        LET unverified == ParseUnverified(t)
            cid == unverified.claims.customerId
            l == [Resting EXCEPT !.op = "verify", !.tok = t]
        IN  workers' = [workers EXCEPT ![w] =
                IF ~unverified.err.nil
                THEN [l EXCEPT !.pc = "done",
                               !.out = VerifyFail(Wrap("failed to parse token", unverified.err),
                                                  <<"parse">>)]
                ELSE IF cid.t # "string"
                THEN [l EXCEPT !.pc = "done",
                               !.out = VerifyFail(Err("customerId not found in token", {}),
                                                  <<"parse">>)]
                ELSE [l EXCEPT !.pc = "lookup", !.customerID = cid.s]]
    /\ UNCHANGED <<customers, clock, req>>

\* VerifyToken's GetSecretKeyForCustomer: the store is read as it is now.
VerifyLookup(w) ==
    LET l == workers[w] IN
    /\ l.pc = "lookup"
    /\ \E up \in BOOLEAN :
        LET look == GetSecretKeyForCustomer(customers, up, l.customerID) IN
        workers' = [workers EXCEPT ![w] =
            IF ~look.err.nil
            THEN [l EXCEPT !.pc = "done", !.look = look, !.up = up,
                           !.out = VerifyFail(Wrap("failed to get secret key for customer "
                                                      \o l.customerID, look.err),
                                              <<"parse", "key">>)]
            ELSE [l EXCEPT !.pc = "parse", !.look = look, !.up = up]]
    /\ UNCHANGED <<customers, clock, req>>

\* VerifyToken's jwt.Parse with the key looked up: the clock is read.
VerifyParse(w) ==
    LET l == workers[w]
        token == JwtParse(l.tok, ParseKey(l), clock)
    IN  /\ l.pc = "parse"
        /\ workers' = [workers EXCEPT ![w] =
              IF ~token.err.nil \/ ~token.valid
              THEN [l EXCEPT !.pc = "done", !.now1 = clock,
                             !.out = VerifyFail(Wrap("token verification failed", token.err),
                                                <<"parse", "key", "verify">>)]
              ELSE [l EXCEPT !.pc = "expiry", !.now1 = clock]]
        /\ UNCHANGED <<customers, clock, req>>

\* VerifyToken's own expiration check and its return: the clock is read again.
VerifyExpiry(w) ==
    LET l == workers[w]
        claims == l.tok.claims
        trace == <<"parse", "key", "verify", "expiry">>
    IN  /\ l.pc = "expiry"
        /\ workers' = [workers EXCEPT ![w] =
              [l EXCEPT !.pc = "done", !.now2 = clock,
                        !.out = IF claims.exp.t # "number"
                                THEN VerifyFail(Err("expiration not found in token", {}), trace)
                                ELSE IF ExpiredAt(claims.exp.n, clock)
                                THEN VerifyFail(Err("token expired", {}), trace)
                                ELSE [payload |-> MakePayload(l.customerID, claims),
                                      err |-> NilErr, trace |-> trace]]]
        /\ UNCHANGED <<customers, clock, req>>

\* CreateCustomerJWT's GetSecretKeyForCustomer.
IssueLookup(w) ==
    /\ workers[w].pc = "rest"
    /\ \E c \in CustomerIds, m \in ConcMinutes, up \in BOOLEAN :
        LET look == GetSecretKeyForCustomer(customers, up, c)
            l == [Resting EXCEPT !.op = "issue", !.customerID = c, !.minutes = m,
                                 !.look = look, !.up = up]
        IN  workers' = [workers EXCEPT ![w] =
                IF ~look.err.nil
                THEN [l EXCEPT !.pc = "done",
                               !.issued = [token |-> EmptyString,
                                           err |-> Wrap("failed to get secret key for customer "
                                                           \o c, look.err)]]
                ELSE [l EXCEPT !.pc = "exp"]]
    /\ UNCHANGED <<customers, clock, req>>

\* CreateCustomerJWT's expirationTime: the clock is read.
IssueExp(w) ==
    /\ workers[w].pc = "exp"
    /\ workers' = [workers EXCEPT ![w].pc = "iat", ![w].now1 = clock]
    /\ UNCHANGED <<customers, clock, req>>

\* CreateCustomerJWT's claims (the clock is read again for iat) and signature.
IssueSign(w) ==
    LET l == workers[w]
        claims == IssuedClaims(l.customerID, l.minutes, l.now1, clock, l.loc)
    IN  /\ l.pc = "iat"
        /\ workers' = [workers EXCEPT ![w] =
              [l EXCEPT !.pc = "done", !.now2 = clock,
                        !.issued = [token |-> SignedString("HS256", claims, l.look.key),
                                    err |-> NilErr]]]
        /\ UNCHANGED <<customers, clock, req>>

\* The call has returned; the goroutine takes the next request.
WorkerReturn(w) ==
    /\ workers[w].pc = "done"
    /\ workers' = [workers EXCEPT ![w] = Resting]
    /\ UNCHANGED <<customers, clock, req>>

Next ==
    \/ CustomerCreate
    \/ CustomerUpdate
    \/ CustomerDelete
    \/ CustomerGet
    \/ CustomerList
    \/ Tick
    \/ JwtGenerate
    \/ TokenRequest
    \/ JwtVerify
    \/ JwtVerifyIssued
    \/ JwtVerifyDeleted
    \/ GwRequest
    \/ GwStep
    \/ Return

Spec == Init /\ [][Next]_vars

\* Requests served concurrently: the steps of the calls in flight interleave
\* with each other, with the clock and with the writes of other processes.
NextConc ==
    \/ AdminCreate
    \/ AdminDelete
    \/ Tick
    \/ \E w \in WorkerIds : VerifyBegin(w)
    \/ \E w \in WorkerIds : VerifyLookup(w)
    \/ \E w \in WorkerIds : VerifyParse(w)
    \/ \E w \in WorkerIds : VerifyExpiry(w)
    \/ \E w \in WorkerIds : IssueLookup(w)
    \/ \E w \in WorkerIds : IssueExp(w)
    \/ \E w \in WorkerIds : IssueSign(w)
    \/ \E w \in WorkerIds : WorkerReturn(w)

SpecConc == Init /\ [][NextConc]_vars

(* ------------------------------ properties ----------------------------- *)

\* VerifyToken has been called for the request in req: on req.tok, against
\* customers, its first clock read req.now1 and its second clock.
Called == req.op = "verify" \/ (req.op = "gateway" /\ req.hdr # EmptyString)

\* The rows of the tenant the token names.
TenantRows == {r \in customers : r.customer_id = req.tok.claims.customerId.s}

\* Stage 1: the string is a compact token with a known algorithm and a string
\* customerId.
StageParse ==
    /\ req.tok.pre = "" /\ req.tok.form = "jws"
    /\ req.tok.alg \in RegisteredAlgs
    /\ req.tok.claims.customerId.t = "string"

\* Stage 2: the store answers and knows the tenant.
StageKey == req.up /\ TenantRows # {}

\* Stage 3: an HMAC algorithm and a signature made with the tenant's key.
StageSignature ==
    /\ req.tok.alg \in {"HS256", "HS384"}
    /\ \E r \in TenantRows : req.tok.sig = Sign(r.secret_key, req.tok.alg, req.tok.claims)

\* Stage 4: a numeric exp later than the clock.
StageExpiry ==
    /\ req.tok.claims.exp.t = "number"
    /\ req.tok.claims.exp.n > req.now1
    /\ req.tok.claims.exp.n >= clock

\* The error is of the Expired kind.
IsExpired(err) == "jwt.ErrTokenExpired" \in err.is \/ err.msg = "token expired"

\* C1: VerifyToken returns a payload only when the four stages all succeeded,
\* and a failing stage ends the call with an error, a nil payload and no
\* later stage run.
C1_NeverFallsThrough ==
    Called =>
        /\ req.out.payload.nil <=> ~req.out.err.nil
        /\ ~req.out.payload.nil =>
              /\ StageParse /\ StageKey /\ StageSignature /\ StageExpiry
              /\ req.out.trace = <<"parse", "key", "verify", "expiry">>
        /\ ~StageParse => req.out.payload.nil /\ req.out.trace = <<"parse">>
        /\ StageParse /\ ~StageKey =>
              req.out.payload.nil /\ req.out.trace = <<"parse", "key">>
        /\ StageParse /\ StageKey /\ ~StageSignature =>
              /\ req.out.payload.nil
              /\ req.out.trace = <<"parse", "key", "verify">>
              /\ "jwt.ErrTokenInvalidClaims" \notin req.out.err.is
        /\ StageParse /\ StageKey /\ StageSignature /\ ~StageExpiry => req.out.payload.nil

\* A token failing both the signature and the expiration stage has been refused.
C1_Witness ==
    /\ Called /\ StageParse /\ StageKey /\ ~StageSignature /\ ~StageExpiry
    /\ req.tok.alg = "HS256"
    /\ req.out.payload.nil

C3_NonHMACRejected ==
    (Called /\ req.tok.form = "jws" /\ req.tok.alg \notin {"HS256", "HS384"})
        => req.out.payload.nil /\ ~req.out.err.nil

\* An unsigned token (alg none, empty signature) of an existing tenant, not
\* expired, has been refused.
C3_Witness ==
    /\ Called /\ StageParse /\ StageKey /\ StageExpiry
    /\ req.tok.alg = "none" /\ req.tok.sig = NoSig
    /\ req.out.payload.nil

\* C4: a correctly signed token of an existing tenant fails as expired when
\* exp is not later than the clock, and succeeds when exp is later than the
\* clock; it fails for no other reason.
C4_ExpirationBoundary ==
    (Called /\ StageParse /\ StageKey /\ StageSignature /\ req.tok.claims.exp.t = "number")
        => /\ req.tok.claims.exp.n <= req.now1 =>
                req.out.payload.nil /\ IsExpired(req.out.err)
           /\ req.tok.claims.exp.n > clock => ~req.out.payload.nil
           /\ req.out.payload.nil => IsExpired(req.out.err)

\* With the clock standing still, a correctly signed token whose exp is the
\* current second has failed as expired.
C4_Witness ==
    /\ Called /\ StageParse /\ StageKey /\ StageSignature
    /\ req.now1 = clock
    /\ req.tok.claims.exp = JNum(clock)
    /\ req.out.payload.nil /\ IsExpired(req.out.err)

\* C5: verifying at once the token CreateCustomerJWT returned for a positive
\* number of minutes succeeds, with the tenant it was issued for and exp
\* between the issuance time and that time plus the minutes.
C5_RoundTrip ==
    (req.op = "verify" /\ req.rt /\ req.minutes > 0)
        => /\ ~req.out.payload.nil
           /\ req.out.payload.CustomerID = req.cid
           /\ req.out.payload.Exp >= req.at
           /\ req.out.payload.Exp <= req.at + req.minutes * Minute

\* The token with its exp, accountId and userId claims replaced.
WithClaims(tok, e, i) ==
    [tok EXCEPT !.claims.exp = e, !.claims.accountId = i[1], !.claims.userId = i[2]]

\* C6: the payload's fields are those of the verified token, and as long as the
\* token has not passed the signature stage the outcome does not depend on its
\* exp, accountId or userId.
C6_TwoPhaseTrust ==
    Called =>
        /\ ~req.out.payload.nil =>
              /\ StageSignature
              /\ req.out.payload.CustomerID = req.tok.claims.customerId.s
              /\ req.out.payload.AccountID =
                    (IF req.tok.claims.accountId.t = "string" THEN req.tok.claims.accountId.s ELSE "")
              /\ req.out.payload.UserID =
                    (IF req.tok.claims.userId.t = "string" THEN req.tok.claims.userId.s ELSE "")
              /\ req.out.payload.Exp = req.tok.claims.exp.n
        /\ ~(StageParse /\ StageKey /\ StageSignature) =>
              \A e \in ExpClaims(req.now1), i \in IdentityClaims :
                  VerifyToken(WithClaims(req.tok, e, i), customers, req.up, req.now1, clock)
                      = req.out

\* A token past its exp and with a wrong signature has been refused for its
\* signature.
C6_Witness ==
    /\ Called /\ StageParse /\ StageKey /\ ~StageSignature
    /\ req.tok.alg = "HS256"
    /\ req.tok.claims.exp.t = "number" /\ req.tok.claims.exp.n < req.now1
    /\ "jwt.ErrTokenSignatureInvalid" \in req.out.err.is

\* C7: for a non-empty Authorization header the answer is 200 exactly when
\* VerifyToken succeeded on the extracted token, and 401 with the error's
\* text as reason when it failed.
C7_GatewayDecision ==
    (req.op = "gateway" /\ req.hdr # EmptyString) =>
        /\ req.out = VerifyToken(ExtractToken(req.hdr), customers, req.up, req.now1, clock)
        /\ req.resp.written => (req.resp.status = 200 <=> req.out.err.nil)
        /\ (req.pc = "done" /\ req.out.err.nil) => req.resp.written /\ req.resp.status = 200
        /\ ~req.out.err.nil =>
              /\ req.pc = "done" /\ req.resp.written
              /\ req.resp.status = 401
              /\ req.resp.body = [NoBody EXCEPT !.error = req.out.err.msg]

\* A request whose bearer token failed the signature stage has been answered 401.
C7_Witness ==
    /\ req.op = "gateway" /\ req.hdr.pre = "Bearer " /\ req.hdr.form = "jws"
    /\ StageParse /\ StageKey /\ ~StageSignature
    /\ req.resp.status = 401
    /\ req.resp.body.error # ""

\* C8: a request without Authorization header, or with an empty one, is
\* answered 401 with the reason "Authorization header required".
C8_MissingHeaderDenied ==
    (req.op = "gateway" /\ req.hdr = EmptyString) =>
        /\ req.pc = "done" /\ req.resp.written
        /\ req.resp.status = 401
        /\ req.resp.body = [NoBody EXCEPT !.error = "Authorization header required"]

\* A request without the header has been answered.
C8_Witness ==
    /\ req.op = "gateway" /\ req.hdr = EmptyString
    /\ req.resp.written /\ req.resp.status = 401

\* The names of the headers sent to the caller.
SentNames == {h[1] : h \in req.resp.sent}

\* C9: every allow response carries X-Customer-ID with the verified tenant,
\* X-Token-Verified: true and X-Token-Expiration of the verified exp, and
\* carries X-Account-ID / X-User-ID exactly when that id is not empty.
C9_AllowHeaders ==
    (req.op = "gateway" /\ req.resp.written /\ req.resp.status = 200) =>
        /\ <<"X-Customer-ID", req.out.payload.CustomerID>> \in req.resp.sent
        /\ <<"X-Token-Verified", "true">> \in req.resp.sent
        /\ <<"X-Token-Expiration", FormatRFC3339(TimeNow(req.out.payload.Exp))>> \in req.resp.sent
        /\ "X-Account-ID" \in SentNames <=> req.out.payload.AccountID # ""
        /\ "X-User-ID" \in SentNames <=> req.out.payload.UserID # ""
        /\ req.out.payload.AccountID # "" =>
              <<"X-Account-ID", req.out.payload.AccountID>> \in req.resp.sent
        /\ req.out.payload.UserID # "" =>
              <<"X-User-ID", req.out.payload.UserID>> \in req.resp.sent

\* C10: when the 200 status and body are written, every header statement of
\* the allow path has run: what they set is what was sent, and nothing is set
\* after the write.
C10_HeadersBeforeDecision ==
    (req.op = "gateway" /\ req.resp.written /\ req.resp.status = 200) =>
        /\ SetIdentityHeaders(NoResponse, req.out.payload).headers \subseteq req.resp.sent
        /\ req.resp.headers \subseteq req.resp.sent
        /\ <<"X-Token-Verified", "true">> \in req.resp.sent
        /\ req.pc = "done"

\* An allow response with account and user id has been written.
C10_Witness ==
    /\ req.op = "gateway" /\ req.resp.written /\ req.resp.status = 200
    /\ req.out.payload.AccountID # "" /\ req.out.payload.UserID # ""
    /\ {"X-Customer-ID", "X-Account-ID", "X-User-ID"} \subseteq SentNames

\* The header as the contract has it handed on: without its first seven
\* characters when these are "Bearer ", whole otherwise.
WithoutBearer(authHeader) ==
    IF Len(authHeader.pre) >= 7 /\ SubSeq(authHeader.pre, 1, 7) = "Bearer "
    THEN [authHeader EXCEPT !.pre = SubSeq(authHeader.pre, 8, Len(authHeader.pre))]
    ELSE authHeader

\* C11: for every non-empty Authorization header the token handed to
\* VerifyToken is the header without its "Bearer " prefix when it starts with
\* exactly that prefix, and the whole header otherwise.
C11_BearerPrefixStripped ==
    (req.op = "gateway" /\ req.hdr # EmptyString) => req.tok = WithoutBearer(req.hdr)

\* An issuance has been asked for, through jwt-generate or POST /token.
Issuing == req.op \in {"issue", "token"}

\* C12: an issuance asked for with minutes that are zero or negative fails and
\* returns no token, through CreateCustomerJWT and through the /token handler.
C12_NonPositiveMinutesRejected ==
    (Issuing /\ ~req.ptr.nil /\ req.ptr.v <= 0) =>
        /\ ~req.issued.err.nil
        /\ req.issued.token = EmptyString
        /\ req.op = "token" => req.resp.status # 200 /\ req.resp.body.token = EmptyString

\* The rows of the tenant the issuance names.
IssuingRows == {r \in customers : r.customer_id = req.cid}

\* C13: a token issued with the minutes left out lives for the
\* expiration_minutes stored in the tenant's row.
C13_DefaultFromTenant ==
    (Issuing /\ req.ptr.nil /\ req.issued.err.nil) =>
        \A r \in IssuingRows :
            req.issued.token.claims.exp.n - req.at = r.expiration_minutes * Minute

\* CreateCustomerJWT has been called for the issuance in req.
IssueCalled == req.op = "issue" \/ (req.op = "token" /\ ShouldBindJSON(req.cid).nil)

\* The error is of the UnknownTenant kind: a failed key lookup with
\* sql.ErrNoRows in its chain.
IsUnknownTenant(err) == ~err.nil /\ "sql.ErrNoRows" \in err.is

\* The error is of the StoreUnavailable kind: a failed key lookup with the
\* driver's error in its chain.
IsStoreUnavailable(err) == ~err.nil /\ "net.OpError" \in err.is

\* What key resolution must have answered for tenant rows and store state up.
KeyResolution(err, rows, up) ==
    /\ IsUnknownTenant(err) <=> (up /\ rows = {})
    /\ IsStoreUnavailable(err) <=> ~up
    /\ ~(IsUnknownTenant(err) /\ IsStoreUnavailable(err))
    /\ (~up \/ rows = {}) =>
          SubSeq(err.msg, 1, 37) = "failed to get secret key for customer"

\* C14: when key resolution is reached, a tenant that does not exist yields an
\* error of the UnknownTenant kind and an unreachable store one of the
\* StoreUnavailable kind, nothing is returned with them, and the caller of
\* VerifyToken and CreateCustomerJWT can tell the two apart.
C14_KeyResolutionErrors ==
    /\ (Called /\ StageParse) =>
          /\ KeyResolution(req.out.err, TenantRows, req.up)
          /\ ~StageKey => req.out.payload.nil
    /\ IssueCalled =>
          /\ KeyResolution(req.issued.err, IssuingRows, req.up)
          /\ (~req.up \/ IssuingRows = {}) => req.issued.token = EmptyString

\* VerifyToken of a token of an existing tenant has failed because the store
\* could not be reached.
C14_Witness ==
    /\ Called /\ StageParse /\ TenantRows # {} /\ ~req.up
    /\ IsStoreUnavailable(req.out.err) /\ ~IsUnknownTenant(req.out.err)

\* The secret keys db stores for customerID.
KeysOf(db, customerID) == {r.secret_key : r \in {x \in db : x.customer_id = customerID}}

\* What a step may do to the stored keys.
KeyKept ==
    /\ \A c \in CustomerIds :
          /\ Cardinality(KeysOf(customers', c)) <= 1
          /\ (KeysOf(customers, c) # {} /\ KeysOf(customers', c) # {})
                => KeysOf(customers', c) = KeysOf(customers, c)
    /\ (req'.op = "create" /\ req'.dberr.nil) =>
          /\ KeysOf(customers, req'.cid) = {}
          /\ KeysOf(customers', req'.cid) = {req'.row.secret_key}
    /\ (req'.op = "create" /\ KeysOf(customers, req'.cid) # {}) =>
          ~req'.dberr.nil /\ customers' = customers
    /\ req'.op = "update" =>
          /\ {r.customer_id : r \in customers'} = {r.customer_id : r \in customers}
          /\ \A n \in customers' : n.customer_id # req'.cid => n \in customers
    /\ req'.op \in {"get", "list", "issue", "token", "verify", "gateway"} =>
          customers' = customers

\* C15: no operation changes the secret_key stored for a tenant that exists
\* before and after it: a successful CreateCustomer stores the key it was
\* given for a customer_id that was not there, a CreateCustomer on an existing
\* customer_id fails and changes nothing, UpdateCustomer touches only the
\* account_id and expiration_minutes of its row, and the reads, issuances and
\* verifications leave the store alone.
C15_SecretKeyStable == [][KeyKept]_vars

\* A CreateCustomer offering another key for an existing customer_id has
\* failed, and the offered key is not the stored one.
C15_Witness ==
    /\ req.op = "create" /\ ~req.dberr.nil
    /\ KeysOf(customers, req.cid) # {}
    /\ req.row.secret_key \notin KeysOf(customers, req.cid)

\* The store content a call observed: the row its lookup returned, if any.
ObservedStore(l) ==
    IF l.look.key = "" THEN {}
    ELSE {[customer_id |-> l.customerID, account_id |-> "a1", secret_key |-> l.look.key,
           expiration_minutes |-> 60]}

\* The call's result is the one it has run alone on what it observed.
ResultAlone(l) ==
    /\ l.op = "verify" =>
          l.out = VerifyToken(l.tok, ObservedStore(l), l.up, l.now1, l.now2)
    /\ l.op = "issue" =>
          l.issued = CreateCustomerJWT(l.customerID, l.minutes, ObservedStore(l), l.up,
                                       l.now1, l.now2, l.loc)

\* What a step of call w may do.
StepAlone(w) ==
    workers'[w] # workers[w] =>
        /\ customers' = customers /\ clock' = clock /\ req' = req
        /\ \A v \in WorkerIds \ {w} : workers'[v] = workers[v]
        /\ workers'[w].pc = "done" => ResultAlone(workers'[w])

\* C16: a step of a VerifyToken or CreateCustomerJWT call changes nothing but
\* the call's own local variables (not the store, not the clock, not another
\* call), and under every interleaving the result a call returns is the result
\* of the same call run alone on the store row and the clock values it read.
C16_RequestsIndependent == [][\A w \in WorkerIds : StepAlone(w)]_vars

\* A verification has succeeded with the key it looked up although the store
\* no longer holds that key for the tenant, while the other call is under way.
C16_Witness ==
    \E w \in WorkerIds :
        /\ workers[w].op = "verify" /\ workers[w].pc = "done"
        /\ ~workers[w].out.payload.nil
        /\ KeysOf(customers, workers[w].customerID) # {workers[w].look.key}
        /\ \E v \in WorkerIds \ {w} : workers[v].pc \notin {"rest", "done"}

\* A verification of a token whose tenant the store does not hold has failed
\* at key resolution.
AbsentFailsAtKey ==
    (Called /\ StageParse /\ TenantRows = {}) =>
        /\ req.out.payload.nil
        /\ req.out.trace = <<"parse", "key">>
        /\ req.up => IsUnknownTenant(req.out.err)

\* The stores a later verification may find, as far as VerifyToken reads them:
\* no row for the tenant, or one.
LaterStores == {{}} \cup {{r} : r \in ConcRows}

\* A token rejected as expired is rejected whenever it is verified later,
\* whatever the store holds then.
StaysRejected ==
    (Called /\ IsExpired(req.out.err)) =>
        \A db \in LaterStores, up \in BOOLEAN, n1 \in clock .. MaxClock + 1 :
            \A n2 \in n1 .. MaxClock + 1 :
                VerifyToken(req.tok, db, up, n1, n2).payload.nil

\* What a step may do to a tenant's presence, and what a verification finds.
LifecycleStep ==
    /\ req'.op = "delete" => KeysOf(customers', req'.cid) = {}
    /\ \A c \in CustomerIds :
          (KeysOf(customers, c) = {} /\ KeysOf(customers', c) # {})
              => req'.op = "create" /\ req'.cid = c /\ req'.dberr.nil
    /\ AbsentFailsAtKey'
    /\ StaysRejected'

\* C17: DeleteCustomer(t) leaves no row of t, no step but a successful
\* CreateCustomer of t brings one back, and while there is none every
\* VerifyToken of a token naming t fails at key resolution, whatever its exp;
\* and a token once rejected as expired is rejected by every later VerifyToken.
C17_TenantLifecycle == [][LifecycleStep]_vars

\* A token signed with the key of a tenant just deleted, with exp still in the
\* future, has been refused at key resolution as an unknown tenant.
C17_Witness ==
    /\ req.op = "verify" /\ req.row # NoRow
    /\ req.tok.claims.customerId = JStr(req.row.customer_id)
    /\ req.tok.sig = Sign(req.row.secret_key, "HS256", req.tok.claims)
    /\ req.tok.claims.exp.n > clock
    /\ req.out.trace = <<"parse", "key">>
    /\ IsUnknownTenant(req.out.err)

====
